---- MODULE Spec2Model ----
(***************************************************************************)
(* A model of inst/python/get_dewey_urls.py: a linear script that reads    *)
(* two command-line arguments, authenticates, lists the files of a         *)
(* dataset, derives five values from the listing and prints them as one    *)
(* line of JSON.                                                           *)
(*                                                                         *)
(* One action per statement of the script.  A statement that raises moves  *)
(* the run to pc = "failed"; nothing catches an exception, so no action is *)
(* enabled there.  Text is modelled as a sequence of one-character         *)
(* strings, so that the two regular-expression substitutions and the JSON  *)
(* string escaping work on characters.  The JSON text is modelled as the   *)
(* sequence of its lexical tokens (the blanks json.dumps puts after ","    *)
(* and ":" are not tokens).  print(...) is one statement and is modelled   *)
(* as one append of the line to the content of standard output.            *)
(***************************************************************************)
EXTENDS Integers, Sequences, FiniteSets

VARIABLES
  pc,              \* the statement the run is at, or "done" / "failed"
  argv,            \* sys.argv: the script name, then the arguments
  api_key,         \* line 11
  data_id,         \* line 12
  files,           \* line 16
  urls,            \* line 19
  file_name,       \* line 23
  parent_folder,   \* lines 24-25
  file_extension,  \* line 27
  stdout,          \* the content of standard output, as tokens
  error,           \* the uncaught exception that ended the run, or "none"
  calls            \* the external calls and the print made so far, in order

vars == <<pc, argv, api_key, data_id, files, urls, file_name, parent_folder,
          file_extension, stdout, error, calls>>

----------------------------------------------------------------------------
(* Bounds of the model. *)

\* The longest listing the listing call returns.
MaxFiles == 2

\* The longest run of characters put before and after the optional "-data"
\* of an enumerated file name.
MaxAffix == 2

----------------------------------------------------------------------------
(* Python values. *)

PyStr(s) == [t |-> "str", s |-> s]
PyInt(n) == [t |-> "int", n |-> n]
PyList(l) == [t |-> "list", l |-> l]
PyNone == [t |-> "None"]

\* What d[k] finds when the dict d has no key k.
Absent == [t |-> "absent"]

\* The fields of a file-metadata record that the script reads.
Fields == {"link", "file_name", "file_extension", "partition_key", "file_size_bytes"}

Rec(link, name, ext, pk, size) ==
  [link |-> PyStr(link), file_name |-> PyStr(name), file_extension |-> PyStr(ext),
   partition_key |-> pk, file_size_bytes |-> PyInt(size)]

\* d[k] raises KeyError unless the key is there.
HasKey(d, k) == d[k] # Absent

\* seq[i] with Python's 0-based index i >= 0 raises IndexError unless i < len(seq).
InRange(seq, i) == i < Len(seq)
Item(seq, i) == seq[i + 1]

----------------------------------------------------------------------------
(* re.sub(r"[-_]\d.*$", "", s) and re.sub(r"-data$", "", s).               *)
(* Positions are 1-based; a match is given by the position after its last  *)
(* character, 0 standing for no match.                                     *)

NL == "\n"
IsDigit(c) == c \in {"0", "1", "2", "3", "4", "5", "6", "7", "8", "9"}
DataSuffix == <<"-", "d", "a", "t", "a">>

\* "$" with no flags: at the end of the string, and just before a newline
\* that is the last character of the string.
AtDollar(s, p) == \/ p = Len(s) + 1
                  \/ p = Len(s) /\ s[p] = NL

\* ".*" with no flags: greedy, and "." matches any character but a newline.
\* The position at which the longest run starting at p stops.
RECURSIVE DotStar(_, _)
DotStar(s, p) == IF p <= Len(s) /\ s[p] # NL THEN DotStar(s, p + 1) ELSE p

\* ".*$" from p: ".*" gives characters back until "$" matches.
DotStarDollar(s, p) ==
  LET ends == {q \in p..DotStar(s, p) : AtDollar(s, q)}
  IN IF ends = {} THEN 0 ELSE CHOOSE q \in ends : \A r \in ends : r <= q

ReMatch(pat, s, i) ==
  CASE pat = "[-_]\\d.*$" ->
         IF i + 1 <= Len(s) /\ s[i] \in {"-", "_"} /\ IsDigit(s[i + 1])
         THEN DotStarDollar(s, i + 2) ELSE 0
    [] pat = "-data$" ->
         IF i + 4 <= Len(s) /\ SubSeq(s, i, i + 4) = DataSuffix /\ AtDollar(s, i + 5)
         THEN i + 5 ELSE 0

\* re.sub(pat, "", s): scan from the left; a match is dropped and the scan
\* goes on after it; a character at which nothing matches is kept.
RECURSIVE ReSubFrom(_, _, _)
ReSubFrom(pat, s, pos) ==
  IF pos > Len(s) THEN <<>>
  ELSE LET e == ReMatch(pat, s, pos)
       IN IF e = 0 THEN <<s[pos]>> \o ReSubFrom(pat, s, pos + 1)
          ELSE ReSubFrom(pat, s, e)

ReSub(pat, s) == ReSubFrom(pat, s, 1)

----------------------------------------------------------------------------
(* The two comprehensions over the listing. *)

\* LinksOf with the listing walked from its end.
LinksOfReversed(fs) == [i \in 1..Len(fs) |-> fs[Len(fs) + 1 - i]["link"]]

\* [f["link"] for f in files], when every record has the key.
LinksOf(fs) == [i \in 1..Len(fs) |-> fs[i]["link"]]

\* The records on which f[k] raises KeyError.
Lacking(fs, k) == {i \in 1..Len(fs) : ~HasKey(fs[i], k)}

\* sum(f["file_size_bytes"] for f in files): starts from 0 and adds the
\* records from the left.  Python integers do not overflow.
RECURSIVE SumFrom(_, _, _)
SumFrom(fs, i, acc) ==
  IF i > Len(fs) THEN acc ELSE SumFrom(fs, i + 1, acc + fs[i]["file_size_bytes"].n)

\* SumSizes with the total kept in 28 bits.
SumSizesTruncated(fs) == SumFrom(fs, 1, 0) % 268435456

SumSizes(fs) == SumFrom(fs, 1, 0)

\* files[0]["partition_key"] of lines 36-38, when the record and the key are there.
PartitionKeyOf(fs) == Item(fs, 0)["partition_key"]

----------------------------------------------------------------------------
(* json.dumps of the output dict, as tokens. *)

Tok(p) == [t |-> p]
StringTok(cs) == [t |-> "string", s |-> cs]
NumberTok(n) == [t |-> "number", n |-> n]
NewlineTok == [t |-> "newline"]

\* The characters between the quotes of a JSON string: json.dumps writes a
\* newline as the two characters \ and n.
RECURSIVE Escape(_)
Escape(cs) ==
  IF cs = <<>> THEN <<>>
  ELSE (IF Head(cs) = NL THEN <<"\\", "n">> ELSE <<Head(cs)>>) \o Escape(Tail(cs))

RECURSIVE DumpsElems(_, _)
DumpsScalar(v) ==
  CASE v.t = "str" -> <<StringTok(Escape(v.s))>>
    [] v.t = "None" -> <<Tok("null")>>
    [] v.t = "int" -> <<NumberTok(v.n)>>

DumpsElems(l, i) ==
  IF i > Len(l) THEN <<>>
  ELSE (IF i > 1 THEN <<Tok(",")>> ELSE <<>>) \o DumpsScalar(l[i]) \o DumpsElems(l, i + 1)

DumpsValue(v) ==
  IF v.t = "list" THEN <<Tok("[")>> \o DumpsElems(v.l, 1) \o <<Tok("]")>>
  ELSE DumpsScalar(v)

\* A dict is written in the order its keys were inserted.
RECURSIVE DumpsItems(_, _)
DumpsItems(items, i) ==
  IF i > Len(items) THEN <<>>
  ELSE (IF i > 1 THEN <<Tok(",")>> ELSE <<>>)
       \o <<StringTok(Escape(items[i][1])), Tok(":")>> \o DumpsValue(items[i][2])
       \o DumpsItems(items, i + 1)

Dumps(items) == <<Tok("{")>> \o DumpsItems(items, 1) \o <<Tok("}")>>

\* The keys of the output dict.
KeyUrls == <<"u", "r", "l", "s">>
KeyParentFolder == <<"p", "a", "r", "e", "n", "t", "_", "f", "o", "l", "d", "e", "r">>
KeyFileExtension == <<"f", "i", "l", "e", "_", "e", "x", "t", "e", "n", "s", "i", "o", "n">>
KeyPartitionKey == <<"p", "a", "r", "t", "i", "t", "i", "o", "n", "_", "k", "e", "y">>
KeyFileSizeBytes == <<"f", "i", "l", "e", "_", "s", "i", "z", "e", "_", "b", "y", "t", "e", "s">>

\* OutputDict written with its keys sorted.
OutputDictSorted(us, folder, ext, pk, total) ==
  << <<KeyFileExtension, ext>>,
     <<KeyFileSizeBytes, PyInt(total)>>,
     <<KeyParentFolder, PyStr(folder)>>,
     <<KeyPartitionKey, pk>>,
     <<KeyUrls, PyList(us)>> >>

\* The dict display of lines 32-42, as the sequence of its items.
OutputDict(us, folder, ext, pk, total) ==
  << <<KeyUrls, PyList(us)>>,
     <<KeyParentFolder, PyStr(folder)>>,
     <<KeyFileExtension, ext>>,
     <<KeyPartitionKey, pk>>,
     <<KeyFileSizeBytes, PyInt(total)>> >>

\* print(text): the text and a newline.
PrintLine(toks) == toks \o <<NewlineTok>>

----------------------------------------------------------------------------
(* The inputs: command lines and what the listing call may return. *)

ScriptName == "get_dewey_urls.py"
CommandLine == <<ScriptName, "key", "id", "extra">>

\* The script run with no, one, two or three arguments.
Argvs == {SubSeq(CommandLine, 1, n) : n \in 1..Len(CommandLine)}

Alphabet == {"-", "0", "a", NL}
Strs(n) == UNION {[1..k -> Alphabet] : k \in 0..n}

ExampleAirline ==
  <<"a", "i", "r", "l", "i", "n", "e", "-", "e", "m", "p", "l", "o", "y", "m", "e", "n", "t",
    "-", "d", "a", "t", "a", "_", "0", "_", "0", "_", "0", ".", "s", "n", "a", "p", "p", "y",
    ".", "p", "a", "r", "q", "u", "e", "t">>
ExampleSales ==
  <<"s", "a", "l", "e", "s", "-", "d", "a", "t", "a", "_", "1", ".", "c", "s", "v">>
ExampleReport == <<"r", "e", "p", "o", "r", "t", ".", "c", "s", "v">>

FileNames ==
  {p \o m \o s : p \in Strs(MaxAffix), m \in {<<>>, DataSuffix}, s \in Strs(MaxAffix)}
  \cup {ExampleAirline, ExampleSales, ExampleReport}

Links == {<<"u">>, <<"v">>}
NamesWithExtension == {<<ExampleSales, <<".", "c", "s", "v">> >>,
                       <<<<"a", "-", "0", ".", "g", "z">>, <<".", "g", "z">> >>}
PartitionKeys == {PyNone, PyStr(<<"k">>)}
Sizes == {7, 268435456}

Pool == {Rec(l, ne[1], ne[2], pk, z) :
           l \in Links, ne \in NamesWithExtension, pk \in PartitionKeys, z \in Sizes}

\* Listings of well-formed records.
PoolListings == UNION {[1..n -> Pool] : n \in 0..MaxFiles}

\* One-record listings over the enumerated file names.
NameListings == {<<Rec(<<"u">>, n, <<".", "c", "s", "v">>, PyNone, 7)>> : n \in FileNames}

\* Listings in which one record lacks one field (made from the records of
\* the smaller size).
MalformedListings ==
  LET small == {r \in Pool : r["file_size_bytes"].n = 7}
      whole == UNION {[1..n -> small] : n \in 1..MaxFiles}
  IN {[l EXCEPT ![i] = [@ EXCEPT ![k] = Absent]] :
        <<l, i, k>> \in {<<l, i, k>> \in whole \X (1..MaxFiles) \X Fields : i <= Len(l)}}

Listings == PoolListings \cup NameListings \cup MalformedListings

----------------------------------------------------------------------------
(* The script. *)

Init ==
  /\ pc = "api_key"
  /\ argv \in Argvs
  /\ api_key = ""
  /\ data_id = ""
  /\ files = <<>>
  /\ urls = <<>>
  /\ file_name = <<>>
  /\ parent_folder = <<>>
  /\ file_extension = PyNone
  /\ stdout = <<>>
  /\ error = "none"
  /\ calls = <<>>

\* An uncaught exception ends the run.
Raise(e) == pc' = "failed" /\ error' = e

Call(fn, arg, raised) == [fn |-> fn, arg |-> arg, raised |-> raised]

\* line 11: api_key = sys.argv[1]
ReadApiKey ==
  /\ pc = "api_key"
  /\ IF InRange(argv, 1)
     THEN /\ api_key' = Item(argv, 1)
          /\ pc' = "data_id"
          /\ UNCHANGED error
     ELSE /\ Raise("IndexError")
          /\ UNCHANGED api_key
  /\ UNCHANGED <<argv, data_id, files, urls, file_name, parent_folder,
                 file_extension, stdout, calls>>

\* ReadDataId with a missing second argument read as the empty string.
ReadDataIdDefault ==
  /\ pc = "data_id"
  /\ data_id' = (IF InRange(argv, 2) THEN Item(argv, 2) ELSE "")
  /\ pc' = "set_api_key"
  /\ UNCHANGED <<argv, api_key, files, urls, file_name, parent_folder,
                 file_extension, stdout, error, calls>>

\* line 12: data_id = sys.argv[2]
ReadDataId ==
  /\ pc = "data_id"
  /\ IF InRange(argv, 2)
     THEN /\ data_id' = Item(argv, 2)
          /\ pc' = "set_api_key"
          /\ UNCHANGED error
     ELSE /\ Raise("IndexError")
          /\ UNCHANGED data_id
  /\ UNCHANGED <<argv, api_key, files, urls, file_name, parent_folder,
                 file_extension, stdout, calls>>

\* line 15: set_api_key(api_key); the library call returns or raises.
SetApiKey ==
  /\ pc = "set_api_key"
  /\ \E raised \in BOOLEAN :
       /\ calls' = Append(calls, Call("set_api_key", api_key, raised))
       /\ IF raised
          THEN Raise("AuthError")
          ELSE pc' = "get_dataset_files" /\ UNCHANGED error
  /\ UNCHANGED <<argv, api_key, data_id, files, urls, file_name, parent_folder,
                 file_extension, stdout>>

\* GetDatasetFiles with a listing call that raised made again.
GetDatasetFilesRetry ==
  /\ pc = "get_dataset_files"
  /\ \/ /\ calls' = Append(calls, Call("get_dataset_files", data_id, TRUE))
        /\ UNCHANGED <<pc, error, files>>
     \/ \E l \in Listings :
          /\ calls' = Append(calls, Call("get_dataset_files", data_id, FALSE))
          /\ files' = l
          /\ pc' = "urls"
          /\ UNCHANGED error
  /\ UNCHANGED <<argv, api_key, data_id, urls, file_name, parent_folder,
                 file_extension, stdout>>

\* line 16: files = get_dataset_files(data_id); the call returns a listing
\* or raises.
GetDatasetFiles ==
  /\ pc = "get_dataset_files"
  /\ \/ /\ calls' = Append(calls, Call("get_dataset_files", data_id, TRUE))
        /\ Raise("ListingError")
        /\ UNCHANGED files
     \/ \E l \in Listings :
          /\ calls' = Append(calls, Call("get_dataset_files", data_id, FALSE))
          /\ files' = l
          /\ pc' = "urls"
          /\ UNCHANGED error
  /\ UNCHANGED <<argv, api_key, data_id, urls, file_name, parent_folder,
                 file_extension, stdout>>

\* Urls with the records that have no link left out.
UrlsSkipMissing ==
  /\ pc = "urls"
  /\ urls' = LinksOf(SelectSeq(files, LAMBDA f : HasKey(f, "link")))
  /\ pc' = "file_name"
  /\ UNCHANGED <<argv, api_key, data_id, files, file_name, parent_folder,
                 file_extension, stdout, error, calls>>

\* line 19: urls = [f["link"] for f in files]
Urls ==
  /\ pc = "urls"
  /\ IF Lacking(files, "link") = {}
     THEN /\ urls' = LinksOf(files)
          /\ pc' = "file_name"
          /\ UNCHANGED error
     ELSE /\ Raise("KeyError")
          /\ UNCHANGED urls
  /\ UNCHANGED <<argv, api_key, data_id, files, file_name, parent_folder,
                 file_extension, stdout, calls>>

\* FileName with an empty listing printed as an empty dataset.
FileNameOrEmpty ==
  /\ pc = "file_name"
  /\ IF ~InRange(files, 0)
     THEN /\ stdout' = stdout \o PrintLine(Dumps(<< <<KeyUrls, PyList(<<>>)>>,
                                                    <<KeyFileSizeBytes, PyInt(0)>> >>))
          /\ pc' = "done"
          /\ UNCHANGED <<file_name, error>>
     ELSE IF ~HasKey(Item(files, 0), "file_name")
     THEN Raise("KeyError") /\ UNCHANGED <<file_name, stdout>>
     ELSE /\ file_name' = Item(files, 0)["file_name"].s
          /\ pc' = "sub_suffix"
          /\ UNCHANGED <<error, stdout>>
  /\ UNCHANGED <<argv, api_key, data_id, files, urls, parent_folder,
                 file_extension, calls>>

\* line 23: file_name = files[0]["file_name"]
FileName ==
  /\ pc = "file_name"
  /\ IF ~InRange(files, 0)
     THEN Raise("IndexError") /\ UNCHANGED file_name
     ELSE IF ~HasKey(Item(files, 0), "file_name")
     THEN Raise("KeyError") /\ UNCHANGED file_name
     ELSE /\ file_name' = Item(files, 0)["file_name"].s
          /\ pc' = "sub_suffix"
          /\ UNCHANGED error
  /\ UNCHANGED <<argv, api_key, data_id, files, urls, parent_folder,
                 file_extension, stdout, calls>>

\* line 24: parent_folder = re.sub(r"[-_]\d.*$", "", file_name)
SubSuffix ==
  /\ pc = "sub_suffix"
  /\ parent_folder' = ReSub("[-_]\\d.*$", file_name)
  /\ pc' = "sub_data"
  /\ UNCHANGED <<argv, api_key, data_id, files, urls, file_name,
                 file_extension, stdout, error, calls>>

\* line 25: parent_folder = re.sub(r"-data$", "", parent_folder)
SubData ==
  /\ pc = "sub_data"
  /\ parent_folder' = ReSub("-data$", parent_folder)
  /\ pc' = "file_extension"
  /\ UNCHANGED <<argv, api_key, data_id, files, urls, file_name,
                 file_extension, stdout, error, calls>>

\* FileExtension with the last record read in place of the first.
FileExtensionOfLast ==
  /\ pc = "file_extension"
  /\ IF ~InRange(files, 0)
     THEN Raise("IndexError") /\ UNCHANGED file_extension
     ELSE IF ~HasKey(Item(files, Len(files) - 1), "file_extension")
     THEN Raise("KeyError") /\ UNCHANGED file_extension
     ELSE /\ file_extension' = Item(files, Len(files) - 1)["file_extension"]
          /\ pc' = "print"
          /\ UNCHANGED error
  /\ UNCHANGED <<argv, api_key, data_id, files, urls, file_name, parent_folder,
                 stdout, calls>>

\* line 27: file_extension = files[0]["file_extension"]
FileExtension ==
  /\ pc = "file_extension"
  /\ IF ~InRange(files, 0)
     THEN Raise("IndexError") /\ UNCHANGED file_extension
     ELSE IF ~HasKey(Item(files, 0), "file_extension")
     THEN Raise("KeyError") /\ UNCHANGED file_extension
     ELSE /\ file_extension' = Item(files, 0)["file_extension"]
          /\ pc' = "print"
          /\ UNCHANGED error
  /\ UNCHANGED <<argv, api_key, data_id, files, urls, file_name, parent_folder,
                 stdout, calls>>

\* PrintJson with the text written item by item as the dict is evaluated:
\* the items before the one that raises are already on standard output.
PrintJsonStreaming ==
  /\ pc = "print"
  /\ IF ~HasKey(Item(files, 0), "partition_key") \/ Lacking(files, "file_size_bytes") # {}
     THEN /\ stdout' = stdout \o <<Tok("{"), StringTok(Escape(KeyUrls)), Tok(":")>>
                              \o DumpsValue(PyList(urls))
          /\ Raise("KeyError")
          /\ UNCHANGED calls
     ELSE /\ stdout' = stdout \o PrintLine(Dumps(OutputDict(
                         urls, parent_folder, file_extension,
                         PartitionKeyOf(files), SumSizes(files))))
          /\ calls' = Append(calls, Call("print", "", FALSE))
          /\ pc' = "done"
          /\ UNCHANGED error
  /\ UNCHANGED <<argv, api_key, data_id, files, urls, file_name, parent_folder,
                 file_extension>>

\* lines 30-44: print(json.dumps({...})).  The dict display is evaluated
\* first, item by item: files[0]["partition_key"], then the sum; then the
\* text is made and written.
PrintJson ==
  /\ pc = "print"
  /\ IF ~InRange(files, 0)
     THEN Raise("IndexError") /\ UNCHANGED <<stdout, calls>>
     ELSE IF ~HasKey(Item(files, 0), "partition_key")
     THEN Raise("KeyError") /\ UNCHANGED <<stdout, calls>>
     ELSE IF Lacking(files, "file_size_bytes") # {}
     THEN Raise("KeyError") /\ UNCHANGED <<stdout, calls>>
     ELSE /\ stdout' = stdout \o PrintLine(Dumps(OutputDict(
                         urls, parent_folder, file_extension,
                         PartitionKeyOf(files), SumSizes(files))))
          /\ calls' = Append(calls, Call("print", "", FALSE))
          /\ pc' = "done"
          /\ UNCHANGED error
  /\ UNCHANGED <<argv, api_key, data_id, files, urls, file_name, parent_folder,
                 file_extension>>

Next ==
  \/ ReadApiKey
  \/ ReadDataId
  \/ SetApiKey
  \/ GetDatasetFiles
  \/ Urls
  \/ FileName
  \/ SubSuffix
  \/ SubData
  \/ FileExtension
  \/ PrintJson

Spec == Init /\ [][Next]_vars

----------------------------------------------------------------------------
(* Reading standard output back, as the calling process does: a JSON       *)
(* reader over the tokens, written from the JSON grammar and not from      *)
(* Dumps.                                                                  *)

JString(cs) == [t |-> "string", s |-> cs]
JNumber(n) == [t |-> "number", n |-> n]
JArray(l) == [t |-> "array", l |-> l]
JNull == [t |-> "null"]
Unreadable == [ok |-> FALSE]

\* The characters between the quotes are well-formed: no raw newline or
\* quote, and every backslash starts an escape.
RECURSIVE ValidString(_)
ValidString(cs) ==
  IF cs = <<>> THEN TRUE
  ELSE IF Head(cs) = "\\"
  THEN Len(cs) >= 2 /\ cs[2] \in {"n", "\\", "\""} /\ ValidString(Tail(Tail(cs)))
  ELSE Head(cs) \notin {NL, "\""} /\ ValidString(Tail(cs))

RECURSIVE Unescape(_)
Unescape(cs) ==
  IF cs = <<>> THEN <<>>
  ELSE IF Head(cs) = "\\"
  THEN <<IF cs[2] = "n" THEN NL ELSE cs[2]>> \o Unescape(Tail(Tail(cs)))
  ELSE <<Head(cs)>> \o Unescape(Tail(cs))

ReadScalar(tok) ==
  CASE tok.t = "string" ->
         IF ValidString(tok.s) THEN [ok |-> TRUE, v |-> JString(Unescape(tok.s))]
         ELSE Unreadable
    [] tok.t = "number" -> [ok |-> TRUE, v |-> JNumber(tok.n)]
    [] tok.t = "null" -> [ok |-> TRUE, v |-> JNull]
    [] OTHER -> Unreadable

\* The elements of an array from token i on, to its "]".
RECURSIVE ReadElems(_, _, _)
ReadElems(toks, i, acc) ==
  IF i + 1 > Len(toks) THEN Unreadable
  ELSE LET e == ReadScalar(toks[i])
       IN IF ~e.ok THEN Unreadable
          ELSE IF toks[i + 1].t = "]"
          THEN [ok |-> TRUE, v |-> JArray(Append(acc, e.v)), next |-> i + 2]
          ELSE IF toks[i + 1].t = ","
          THEN ReadElems(toks, i + 2, Append(acc, e.v))
          ELSE Unreadable

ReadValue(toks, i) ==
  IF i > Len(toks) THEN Unreadable
  ELSE IF toks[i].t = "["
  THEN IF i + 1 <= Len(toks) /\ toks[i + 1].t = "]"
       THEN [ok |-> TRUE, v |-> JArray(<<>>), next |-> i + 2]
       ELSE ReadElems(toks, i + 1, <<>>)
  ELSE LET e == ReadScalar(toks[i])
       IN IF e.ok THEN [ok |-> TRUE, v |-> e.v, next |-> i + 1] ELSE Unreadable

\* The members of an object from token i on, to its "}".
RECURSIVE ReadMembers(_, _, _)
ReadMembers(toks, i, acc) ==
  IF i + 1 > Len(toks) THEN Unreadable
  ELSE LET k == ReadScalar(toks[i])
       IN IF ~k.ok \/ k.v.t # "string" \/ toks[i + 1].t # ":" THEN Unreadable
          ELSE LET v == ReadValue(toks, i + 2)
               IN IF ~v.ok \/ v.next > Len(toks) THEN Unreadable
                  ELSE IF toks[v.next].t = "}"
                  THEN [ok |-> TRUE, members |-> Append(acc, <<k.v.s, v.v>>),
                        next |-> v.next + 1]
                  ELSE IF toks[v.next].t = ","
                  THEN ReadMembers(toks, v.next + 1, Append(acc, <<k.v.s, v.v>>))
                  ELSE Unreadable

\* The whole of `out` is one JSON object and the newline after it.
ReadLine(out) ==
  IF Len(out) < 3 \/ out[1].t # "{" THEN Unreadable
  ELSE LET m == IF out[2].t = "}" THEN [ok |-> TRUE, members |-> <<>>, next |-> 3]
                ELSE ReadMembers(out, 2, <<>>)
       IN IF m.ok /\ m.next = Len(out) /\ out[m.next].t = "newline"
          THEN [ok |-> TRUE, members |-> m.members]
          ELSE Unreadable

KeysOf(members) == [i \in 1..Len(members) |-> members[i][1]]
HasMember(members, key) == \E i \in 1..Len(members) : members[i][1] = key
ValueOf(members, key) ==
  members[CHOOSE i \in 1..Len(members) : members[i][1] = key][2]

\* The JSON value that stands for a Python value.
JsonOf(v) ==
  CASE v.t = "str" -> JString(v.s)
    [] v.t = "None" -> JNull
    [] v.t = "int" -> JNumber(v.n)

\* Standard output holds one JSON line whose member `key` is `value`.
OutputHas(key, value) ==
  LET o == ReadLine(stdout)
  IN o.ok /\ HasMember(o.members, key) /\ ValueOf(o.members, key) = value

----------------------------------------------------------------------------
(* The claims. *)

\* The listing call has returned (and files holds what it returned).
ListingReturned == Len(calls) >= 2 /\ ~calls[2].raised

WellFormed(fs) == \A i \in 1..Len(fs) : \A k \in Fields : HasKey(fs[i], k)

\* The listing call has returned N >= 1 well-formed records.
GoodListing == ListingReturned /\ Len(files) >= 1 /\ WellFormed(files)

\* C1: for a listing of N >= 1 well-formed records, the run does not fail
\* and the "urls" value of the output is the sequence of the N links, the
\* i-th entry being the link of the i-th record.
C1_UrlsAreTheLinksInOrder ==
  GoodListing =>
    /\ pc # "failed"
    /\ pc = "done" =>
         OutputHas(KeyUrls,
                   JArray([i \in 1..Len(files) |-> JString(files[i]["link"].s)]))

C1_Witness ==
  /\ pc = "done"
  /\ GoodListing
  /\ Len(files) = MaxFiles
  /\ files[1]["link"] # files[2]["link"]

\* The sum of the sizes of the records with an index in S, in no
\* particular order.
RECURSIVE SizeOver(_, _)
SizeOver(fs, S) ==
  IF S = {} THEN 0
  ELSE LET i == CHOOSE j \in S : TRUE
       IN fs[i]["file_size_bytes"].n + SizeOver(fs, S \ {i})

\* C2: for a listing of N >= 1 well-formed records, the "file_size_bytes"
\* value of the output is the exact integer sum of the sizes of all N
\* records, each counted once.
C2_SizeIsTheExactSum ==
  (GoodListing /\ pc = "done") =>
    OutputHas(KeyFileSizeBytes, JNumber(SizeOver(files, 1..Len(files))))

C2_Witness ==
  /\ pc = "done"
  /\ GoodListing
  /\ Len(files) = MaxFiles
  /\ \A i \in 1..Len(files) : files[i]["file_size_bytes"].n = 268435456

\* C4: for a listing of N >= 1 well-formed records, the "file_extension"
\* and "partition_key" values of the output are those of the first record,
\* a None partition_key being written as null.
C4_ExtensionAndKeyOfFirstRecord ==
  (GoodListing /\ pc = "done") =>
    /\ OutputHas(KeyFileExtension, JString(files[1]["file_extension"].s))
    /\ OutputHas(KeyPartitionKey,
                 IF files[1]["partition_key"] = PyNone THEN JNull
                 ELSE JString(files[1]["partition_key"].s))

C4_Witness ==
  /\ pc = "done"
  /\ GoodListing
  /\ Len(files) >= 2
  /\ files[1]["partition_key"] = PyNone
  /\ files[2]["partition_key"] # PyNone
  /\ files[1]["file_extension"] # files[2]["file_extension"]
  /\ OutputHas(KeyPartitionKey, JNull)

PrintCalls == SelectSeq(calls, LAMBDA c : c.fn = "print")

\* C5: a run given its arguments and a listing of N >= 1 well-formed
\* records does not fail, and once a run is done standard output is exactly
\* one JSON object with the five keys "urls", "parent_folder",
\* "file_extension", "partition_key", "file_size_bytes" in this order,
\* followed by a newline, written by one print.
C5_OneJsonLineWithFiveKeys ==
  /\ GoodListing => pc # "failed"
  /\ pc = "done" =>
       /\ ReadLine(stdout).ok
       /\ KeysOf(ReadLine(stdout).members) =
            <<KeyUrls, KeyParentFolder, KeyFileExtension, KeyPartitionKey,
              KeyFileSizeBytes>>
       /\ stdout[Len(stdout)] = NewlineTok
       /\ Len(PrintCalls) = 1

C5_Witness ==
  /\ pc = "done"
  /\ GoodListing
  /\ Len(argv) = 3
  /\ Len(ReadLine(stdout).members) = 5

\* The derivation as claimed: cut the name at the first hyphen or
\* underscore that a digit follows, then drop "-data" from the end.
ClaimedStripSuffix(s) ==
  LET hits == {i \in 1..(Len(s) - 1) : s[i] \in {"-", "_"} /\ IsDigit(s[i + 1])}
  IN IF hits = {} THEN s
     ELSE SubSeq(s, 1, (CHOOSE i \in hits : \A j \in hits : i <= j) - 1)

ClaimedStripData(s) ==
  IF Len(s) >= 5 /\ SubSeq(s, Len(s) - 4, Len(s)) = DataSuffix
  THEN SubSeq(s, 1, Len(s) - 5) ELSE s

ClaimedFolder(s) == ClaimedStripData(ClaimedStripSuffix(s))

AirlineEmployment ==
  <<"a", "i", "r", "l", "i", "n", "e", "-", "e", "m", "p", "l", "o", "y", "m", "e", "n", "t">>

\* C3: the "parent_folder" value of the output is the first record's
\* file_name with the part from the first hyphen or underscore followed by
\* a digit to the end of the string removed, and then a trailing "-data"
\* removed; the three names of the specification give "airline-employment",
\* "sales" and "report.csv".
C3_FolderFromFirstFileName ==
  pc = "done" =>
    LET name == files[1]["file_name"].s
    IN /\ OutputHas(KeyParentFolder, JString(ClaimedFolder(name)))
       /\ name = ExampleAirline => OutputHas(KeyParentFolder, JString(AirlineEmployment))
       /\ name = ExampleSales =>
            OutputHas(KeyParentFolder, JString(<<"s", "a", "l", "e", "s">>))
       /\ name = ExampleReport => OutputHas(KeyParentFolder, JString(ExampleReport))

\* C6: with fewer than two arguments the run never gets past argument
\* intake: it can only fail, with an index error, with nothing written to
\* standard output and no external call made.
C6_MissingArgumentFailsBeforeAnyCall ==
  Len(argv) < 3 =>
    /\ pc \in {"api_key", "data_id", "failed"}
    /\ pc = "failed" => error = "IndexError"
    /\ pc # "failed" => ENABLED Next
    /\ stdout = <<>>
    /\ calls = <<>>

C6_Witness ==
  /\ Len(argv) = 2
  /\ api_key = "key"
  /\ pc = "failed"
  /\ error = "IndexError"

\* C7: when the listing call returns an empty sequence the run can only
\* fail, with an index error at files[0], and standard output stays empty:
\* no JSON object with an empty "urls" and a zero "file_size_bytes" is
\* written.
C7_EmptyListingFails ==
  (ListingReturned /\ Len(files) = 0) =>
    /\ pc \in {"urls", "file_name", "failed"}
    /\ pc = "failed" => error = "IndexError"
    /\ pc # "failed" => ENABLED Next
    /\ stdout = <<>>

C7_Witness ==
  /\ ListingReturned
  /\ Len(files) = 0
  /\ urls = <<>>
  /\ pc = "failed"
  /\ error = "IndexError"

\* C8: standard output is empty until the run is done, and then it holds
\* the complete JSON line made of the five derived values; a run that has
\* failed has written nothing and takes no further step.
C8_NoPartialOutput ==
  /\ pc # "done" => stdout = <<>>
  /\ pc = "done" =>
       /\ Len(ReadLine(stdout).members) = 5
       /\ OutputHas(KeyUrls, JArray([i \in 1..Len(urls) |-> JsonOf(urls[i])]))
       /\ OutputHas(KeyParentFolder, JString(parent_folder))
       /\ OutputHas(KeyFileExtension, JsonOf(file_extension))
       /\ HasMember(ReadLine(stdout).members, KeyPartitionKey)
       /\ HasMember(ReadLine(stdout).members, KeyFileSizeBytes)
  /\ pc = "failed" => error # "none" /\ ~ENABLED Next

\* A run that failed in the print statement, after urls, parent_folder and
\* file_extension had been derived.
C8_Witness ==
  /\ pc = "failed"
  /\ error = "KeyError"
  /\ Len(urls) = MaxFiles
  /\ file_extension # PyNone
  /\ stdout = <<>>

\* Some record of the listing lacks one of the five fields.
SomeFieldMissing == \E i \in 1..Len(files) : \E k \in Fields : ~HasKey(files[i], k)

\* A record lacks a field that the script reads from every record, or the
\* first record lacks a field that the script reads from the first record.
ReadFieldMissing ==
  \/ \E i \in 1..Len(files) : \E k \in {"link", "file_size_bytes"} : ~HasKey(files[i], k)
  \/ /\ Len(files) >= 1
     /\ \E k \in {"file_name", "file_extension", "partition_key"} : ~HasKey(files[1], k)

\* C9, as claimed: if any record, at any position, lacks one of the five
\* fields, the run ends in a lookup failure and writes nothing to standard
\* output.
C9_AnyMissingFieldFails ==
  (ListingReturned /\ SomeFieldMissing) =>
    /\ pc # "done"
    /\ pc = "failed" => error = "KeyError"
    /\ stdout = <<>>

\* C9, amended: if any record lacks link or file_size_bytes, or the first
\* record lacks file_name, file_extension or partition_key, the run can
\* only end in a lookup failure and writes nothing to standard output.
C9_ReadMissingFieldFails ==
  (ListingReturned /\ ReadFieldMissing) =>
    /\ pc # "done"
    /\ pc = "failed" => error = "KeyError"
    /\ pc # "failed" => ENABLED Next
    /\ stdout = <<>>

\* The second record has no link; the first is well formed.
C9_Witness ==
  /\ ListingReturned
  /\ Len(files) = 2
  /\ WellFormed(<<files[1]>>)
  /\ ~HasKey(files[2], "link")
  /\ pc = "failed"
  /\ error = "KeyError"

\* C10: the calls made so far are a prefix of: set_api_key with the first
\* argument, get_dataset_files with the second argument, print.  A call is
\* made only after the one before it has returned, a call that raised is
\* the last one and has ended the run, and a run past argument intake that
\* has ended has made the authentication call exactly once.
C10_AuthenticateThenListThenPrint ==
  /\ Len(calls) <= 3
  /\ Len(calls) >= 1 => calls[1] = Call("set_api_key", argv[2], calls[1].raised)
  /\ Len(calls) >= 2 => /\ ~calls[1].raised
                        /\ calls[2] = Call("get_dataset_files", argv[3], calls[2].raised)
  /\ Len(calls) >= 3 => /\ ~calls[2].raised
                        /\ calls[3] = Call("print", "", FALSE)
  /\ \A i \in 1..Len(calls) :
       calls[i].raised => i = Len(calls) /\ pc = "failed" /\ error \in {"AuthError", "ListingError"}
  /\ (Len(argv) >= 3 /\ pc \notin {"api_key", "data_id", "set_api_key"}) =>
       Len(SelectSeq(calls, LAMBDA c : c.fn = "set_api_key")) = 1
  /\ pc = "done" => Len(calls) = 3
  /\ stdout # <<>> => Len(calls) = 3

C10_Witness ==
  /\ pc = "done"
  /\ Len(calls) = 3
  /\ calls[1].arg = "key"
  /\ calls[2].arg = "id"

====
